---- MODULE Spec2Model ----
(***************************************************************************)
(* DissolveTransition of src/dissolve.py: the timed controller             *)
(* (elapsed_ms, pixels_swapped) and the multiplicative index sequencer     *)
(* (k, p, m) it drives, together with the host's swap_pixel callback,      *)
(* which is modelled as a recorder of the pixels it was asked to swap.     *)
(***************************************************************************)
EXTENDS Integers, FiniteSets, Sequences, TLC

\* self.p = (2 ** 16) + 1 and self.m = (2 ** 15) - 1
p == 65537
m == 32767

\* ---------------------------------------------------------------- inputs
\* Largest width of the small images the model constructs.
MaxWidth == 2
\* Their heights.
Heights == {1, 2}
\* The host calls reset() at most MaxResets times.
MaxResets == 1

\* DEFAULT_TRANSITION_DURATION = 4.0 seconds, in ms (line 128).
DefaultDuration == 4000
\* The 100 x 100 image of the documented pacing example, at the default duration.
ExampleConfig == <<100, 100, DefaultDuration>>

\* An image of more than p - 1 pixels (32769 x 2 = 65538), whose inner loop can swap
\* two pixels for one value of k.
LargeConfig == <<32769, 2, 2>>

\* The durations (ms) of the small images' transitions.
Durations == {3}
\* <<width, height, duration_ms>> of the transitions the model constructs.
Configs == ((1..MaxWidth) \X Heights \X Durations) \cup {ExampleConfig, LargeConfig}
\* Arguments with a non-positive duration, width or height, next to one valid
\* configuration.
AnyArgs == {<<2, 1, 0>>, <<0, 1, 2>>, <<2, 0, 2>>, <<-1, 1, 2>>, <<2, -1, 2>>, <<2, 1, 2>>}
\* k0 = random.randint(1, p - 1): the two ends of the range.
K0s == {1, p - 1}
\* The frame deltas the host passes to update(): none, a quarter of the duration
\* (rounded up), and the whole duration.
Deltas(dur) == {0, (dur + 3) \div 4, dur}
\* The pixel indices whose swaps are recorded: every pixel of a small image.
Watched == UNION {0..(w * h - 1) : w \in 1..MaxWidth, h \in Heights}

VARIABLES
    width, height,      \* Transition.width, Transition.height
    duration_ms,        \* DissolveTransition.duration_ms
    pixels_total,       \* DissolveTransition.pixels_total
    elapsed_ms,         \* DissolveTransition.elapsed_ms
    pixels_swapped,     \* DissolveTransition.pixels_swapped
    k,                  \* DissolveTransition.k
    pc,                 \* "idle": no call in progress; "loop": inside update()'s while loop;
                        \* "raised": update() raised an exception
    pixels_to_swap,     \* update()'s local pixels_to_swap
    ret,                \* value returned by the last completed update(): "none", "True", "False";
                        \* the exception's name when it raised
    swapped,            \* watched pixel indices y*width + x that swap_pixel(x, y) was called on in this transition
    repeated,           \* watched pixel indices swap_pixel was called on more than once in this transition
    emitted,            \* number of swap_pixel calls of this transition
    resets,             \* number of reset() calls so far
    kStart,             \* k when this transition began: k0 at construction, k at the last reset()
    advances,           \* number of times k was advanced (step H) in this transition, saturated at p
    previous,           \* the transition the last reset() ended: whether it had finished, and if so its swapped
    order,              \* the watched pixel indices swap_pixel was called on in this transition, in call order
    ref,                \* a second transition, constructed with this one's size and starting k and
                        \* given a single update(duration_ms): its k, the pixels its call still owes,
                        \* and its order, after as many loop iterations as this transition has made
    deltaSum,           \* sum of the deltas passed to update() in this transition, saturated at duration_ms
    fresh               \* pacing state of a second transition, constructed with the same duration and
                        \* size when this one was constructed or last reset, and fed the same deltas

vars == <<width, height, duration_ms, pixels_total, elapsed_ms, pixels_swapped, k,
          pc, pixels_to_swap, ret, swapped, repeated, emitted, resets, kStart, advances,
          previous, order, ref, deltaSum, fresh>>

\* The fields no method assigns after __init__.
config == <<width, height, duration_ms, pixels_total>>

Min(a, b) == IF a <= b THEN a ELSE b

\* int(a / b) of Python for b > 0: truncation toward zero.
IntDiv(a, b) == IF a >= 0 THEN a \div b ELSE -((-a) \div b)

\* ------------------------------------------------------------- update()
\* line 56: already finished
Finished(sw, total) == sw >= total

\* Elapse without the clamp of lines 61-62.
ElapseUnclamped(el, d, dur) == el + d

\* Elapse with line 60 an assignment instead of +=.
ElapseAssigned(el, d, dur) == IF d >= dur THEN dur ELSE d

\* Elapse with every frame counted as at least one millisecond.
ElapseAtLeastOne(el, d, dur) ==
    IF el + (IF d < 1 THEN 1 ELSE d) >= dur THEN dur ELSE el + (IF d < 1 THEN 1 ELSE d)

\* lines 60-62: elapsed time, clamped to the duration
Elapse(el, d, dur) == IF el + d >= dur THEN dur ELSE el + d

\* PixelsToSwap with the target rounded up instead of truncated.
PixelsToSwapRoundedUp(total, el, dur, sw) == IntDiv(total * el + dur - 1, dur) - sw

\* line 65: number of pixels to swap in this frame
PixelsToSwap(total, el, dur, sw) == IntDiv(total * el, dur) - sw

\* line 72, step C: j = (w*h) + k - p
PixelNumber(total, kk) == total + kk - p

\* line 78: the coordinates handed to swap_pixel
\* A column computed by division instead of remainder.
PixelXDiv(j, w) == j \div w

\* A row computed by rounding the division up.
PixelYRoundedUp(j, w) == (j + w - 1) \div w

PixelX(j, w) == j % w
PixelY(j, w) == j \div w

\* lines 75-83, steps D-F: the swap_pixel(x, y) calls of the inner loop started at j,
\* in order.
RECURSIVE InnerLoop(_, _)
InnerLoop(j, w) ==
    IF j > 0
    THEN <<(<<PixelX(j, w), PixelY(j, w)>>)>> \o InnerLoop(j - (p - 1), w)
    ELSE <<>>

\* lines 87-88, step H: knew = (k*m) mod p
\* Step H with the multiplier 2, which is not a primitive root (its order is 32).
NextKPowerOfTwo(kk) == (kk * 2) % p

\* Step H reduced modulo p - 1 instead of p.
NextKModPMinusOne(kk) == (kk * m) % (p - 1)

NextK(kk) == (kk * m) % p

\* RunResult reporting whether pixels remain after the call.
RunResultUnfinished(sw, total) == IF sw < total THEN "True" ELSE "False"

\* line 94: the value update() returns after it has paced.
RunResult(sw, total) == "True"

\* The host's callback swap_pixel(x, y) (lines 125-126) touches the pixel of its
\* surface array at column x, row y: pixel index y*width + x.
PixelIndex(x, y, w) == y * w + x

\* The pixel indices of a sequence of swap_pixel calls.
Touched(calls, w) == {PixelIndex(calls[i][1], calls[i][2], w) : i \in 1..Len(calls)}

\* lines 55-67 and 94 on the pacing fields alone, for the second transition: it has
\* its own k and its own callback, which the pacing never reads.
FreshUpdate(f, d, total, dur) ==
    IF Finished(f.pixels_swapped, total)
    THEN [f EXCEPT !.ret = "False"]
    ELSE LET el == Elapse(f.elapsed_ms, d, dur)
             n == PixelsToSwap(total, el, dur, f.pixels_swapped)
         IN [elapsed_ms |-> el,
             pixels_swapped |-> f.pixels_swapped + n,
             ret |-> RunResult(f.pixels_swapped + n, total)]

\* The pacing fields __init__ sets (lines 32 and 35); no update() has returned yet.
FreshInit == [elapsed_ms |-> 0, pixels_swapped |-> 0, ret |-> "none"]

\* ---------------------------------------------------------------- state
\* The image is one of the small ones, all of whose pixels are watched; reset() is
\* modelled on these.
AllWatched == pixels_total <= Cardinality(Watched)

\* What reset() leaves behind of the transition it ends.
NoneEnded == [finished |-> FALSE, swapped |-> {}]
Ended(sw, total, set) == IF Finished(sw, total) THEN [finished |-> TRUE, swapped |-> set]
                                             ELSE NoneEnded

InWatched(i) == i \in Watched

\* The watched pixel indices of one iteration's swap_pixel calls, in call order.
WatchedOrder(calls, w) ==
    SelectSeq([i \in 1..Len(calls) |-> PixelIndex(calls[i][1], calls[i][2], w)], InWatched)

\* A transition constructed with starting k kk whose update(duration_ms) is about to
\* test its while loop: lines 60-67 give pixels_to_swap = pixels_total.
RefInit(kk, total, dur) ==
    [k |-> kk, owed |-> IF dur = 0 THEN 0 ELSE PixelsToSwap(total, dur, dur, 0), order |-> <<>>]

\* One iteration of that call's while loop (lines 69-88); nothing once it has returned.
RefStep(r, total, w) ==
    IF r.owed > 0
    THEN LET calls == InnerLoop(PixelNumber(total, r.k), w)
         IN [k |-> NextK(r.k), owed |-> r.owed - Len(calls),
             order |-> r.order \o WatchedOrder(calls, w)]
    ELSE r

\* __init__ (lines 28-48) called with one of the configurations cfgs: it stores its
\* arguments as they are and draws k0.
Construct(cfgs) ==
    /\ \E c \in cfgs : width = c[1] /\ height = c[2] /\ duration_ms = c[3]
    /\ pixels_total = width * height
    /\ elapsed_ms = 0
    /\ pixels_swapped = 0
    /\ k \in K0s
    /\ pc = "idle"
    /\ pixels_to_swap = 0
    /\ ret = "none"
    /\ swapped = {}
    /\ repeated = {}
    /\ emitted = 0
    /\ resets = 0
    /\ kStart = k
    /\ advances = 0
    /\ previous = NoneEnded
    /\ order = <<>>
    /\ ref = RefInit(k, pixels_total, duration_ms)
    /\ deltaSum = 0
    /\ fresh = FreshInit

Init == Construct(Configs)

\* Construction with the arguments the host can also pass: a zero duration
\* (--duration 0), and zero or negative sizes.
InitAnyArgs == Construct(AnyArgs)

\* Reset that also draws a new k0.
ResetRedrawsK ==
    /\ pc = "idle"
    /\ resets < MaxResets /\ AllWatched
    /\ elapsed_ms' = 0
    /\ pixels_swapped' = 0
    /\ ret' = "none"
    /\ swapped' = {}
    /\ repeated' = {}
    /\ emitted' = 0
    /\ resets' = resets + 1
    /\ k' \in K0s
    /\ kStart' = k'
    /\ advances' = 0
    /\ previous' = Ended(pixels_swapped, pixels_total, swapped)
    /\ order' = <<>>
    /\ ref' = RefInit(k', pixels_total, duration_ms)
    /\ deltaSum' = 0
    /\ fresh' = FreshInit
    /\ UNCHANGED <<config, pc, pixels_to_swap>>

\* Reset without line 52.
ResetElapsedOnly ==
    /\ pc = "idle"
    /\ resets < MaxResets /\ AllWatched
    /\ elapsed_ms' = 0
    /\ ret' = "none"
    /\ swapped' = {}
    /\ repeated' = {}
    /\ emitted' = 0
    /\ resets' = resets + 1
    /\ kStart' = k
    /\ advances' = 0
    /\ previous' = Ended(pixels_swapped, pixels_total, swapped)
    /\ order' = <<>>
    /\ ref' = RefInit(k, pixels_total, duration_ms)
    /\ deltaSum' = 0
    /\ fresh' = FreshInit
    /\ UNCHANGED <<config, pixels_swapped, k, pc, pixels_to_swap>>

\* reset() (lines 50-52); the host restarts its working image with it (lines 150-151).
Reset ==
    /\ pc = "idle"
    /\ resets < MaxResets /\ AllWatched
    /\ elapsed_ms' = 0
    /\ pixels_swapped' = 0
    /\ ret' = "none"
    /\ swapped' = {}
    /\ repeated' = {}
    /\ emitted' = 0
    /\ resets' = resets + 1
    /\ kStart' = k
    /\ advances' = 0
    /\ previous' = Ended(pixels_swapped, pixels_total, swapped)
    /\ order' = <<>>
    /\ ref' = RefInit(k, pixels_total, duration_ms)
    /\ deltaSum' = 0
    /\ fresh' = FreshInit
    /\ UNCHANGED <<config, k, pc, pixels_to_swap>>

\* UpdateFinished with the finished test moved below line 60.
UpdateFinishedLate(d) ==
    /\ pc = "idle"
    /\ Finished(pixels_swapped, pixels_total)
    /\ elapsed_ms' = elapsed_ms + d
    /\ ret' = "False"
    /\ deltaSum' = Min(deltaSum + d, duration_ms)
    /\ fresh' = FreshUpdate(fresh, d, pixels_total, duration_ms)
    /\ UNCHANGED <<config, pixels_swapped, k, pc, pixels_to_swap,
                   swapped, repeated, emitted, resets, kStart, advances, previous,
                   order, ref>>

\* update(delta_ms), lines 55-57: the call returns False at once.
UpdateFinished(d) ==
    /\ pc = "idle"
    /\ Finished(pixels_swapped, pixels_total)
    /\ ret' = "False"
    /\ deltaSum' = Min(deltaSum + d, duration_ms)
    /\ fresh' = FreshUpdate(fresh, d, pixels_total, duration_ms)
    /\ UNCHANGED <<config, elapsed_ms, pixels_swapped, k, pc, pixels_to_swap,
                   swapped, repeated, emitted, resets, kStart, advances, previous,
                   order, ref>>

\* update(delta_ms), lines 59-69: pacing, up to the first test of the while loop
\* (and line 94 when the loop is not entered). With a zero duration the division of
\* line 65 raises ZeroDivisionError after lines 60-62 have run; nothing catches it.
UpdateRun(d) ==
    /\ pc = "idle"
    /\ ~Finished(pixels_swapped, pixels_total)
    /\ elapsed_ms' = Elapse(elapsed_ms, d, duration_ms)
    /\ deltaSum' = Min(deltaSum + d, duration_ms)
    /\ IF duration_ms = 0
       THEN /\ pc' = "raised"
            /\ ret' = "ZeroDivisionError"
            /\ UNCHANGED <<pixels_to_swap, pixels_swapped, fresh>>
       ELSE /\ pixels_to_swap' = PixelsToSwap(pixels_total, elapsed_ms', duration_ms, pixels_swapped)
            /\ pixels_swapped' = pixels_swapped + pixels_to_swap'
            /\ fresh' = FreshUpdate(fresh, d, pixels_total, duration_ms)
            /\ IF pixels_to_swap' > 0
               THEN pc' = "loop" /\ ret' = "none"
               ELSE pc' = "idle" /\ ret' = RunResult(pixels_swapped', pixels_total)
    /\ UNCHANGED <<config, k, swapped, repeated, emitted, resets, kStart, advances, previous,
                   order, ref>>

\* An outer loop that counts its own iterations instead of the calls of swap_pixel.
AdvanceCountsSteps ==
    /\ pc = "loop"
    /\ LET calls == InnerLoop(PixelNumber(pixels_total, k), width)
           idx == Touched(calls, width)
       IN /\ swapped' = swapped \cup (idx \cap Watched)
          /\ repeated' = repeated \cup (idx \cap swapped)
          /\ emitted' = emitted + Len(calls)
          /\ order' = order \o WatchedOrder(calls, width)
          /\ pixels_to_swap' = pixels_to_swap - 1
    /\ k' = NextK(k)
    /\ advances' = Min(advances + 1, p)
    /\ IF pixels_to_swap' > 0
       THEN pc' = "loop" /\ ret' = ret
       ELSE pc' = "idle" /\ ret' = RunResult(pixels_swapped, pixels_total)
    /\ ref' = RefStep(ref, pixels_total, width)
    /\ UNCHANGED <<config, elapsed_ms, pixels_swapped, resets, kStart, deltaSum, fresh, previous>>

\* An iteration that advances k (step H) before it swaps the pixels (steps C-F).
AdvanceBeforeEmit ==
    /\ pc = "loop"
    /\ k' = NextK(k)
    /\ advances' = Min(advances + 1, p)
    /\ LET calls == InnerLoop(PixelNumber(pixels_total, k'), width)
           idx == Touched(calls, width)
       IN /\ swapped' = swapped \cup (idx \cap Watched)
          /\ repeated' = repeated \cup (idx \cap swapped)
          /\ emitted' = emitted + Len(calls)
          /\ order' = order \o WatchedOrder(calls, width)
          /\ pixels_to_swap' = pixels_to_swap - Len(calls)
    /\ IF pixels_to_swap' > 0
       THEN pc' = "loop" /\ ret' = ret
       ELSE pc' = "idle" /\ ret' = RunResult(pixels_swapped, pixels_total)
    /\ ref' = RefStep(ref, pixels_total, width)
    /\ UNCHANGED <<config, elapsed_ms, pixels_swapped, resets, kStart, deltaSum, fresh, previous>>

\* An iteration that leaves the loop without step H when it was the call's last.
AdvanceLeavesKOnReturn ==
    /\ pc = "loop"
    /\ LET calls == InnerLoop(PixelNumber(pixels_total, k), width)
           idx == Touched(calls, width)
       IN /\ swapped' = swapped \cup (idx \cap Watched)
          /\ repeated' = repeated \cup (idx \cap swapped)
          /\ emitted' = emitted + Len(calls)
          /\ order' = order \o WatchedOrder(calls, width)
          /\ pixels_to_swap' = pixels_to_swap - Len(calls)
    /\ IF pixels_to_swap' > 0
       THEN /\ pc' = "loop" /\ ret' = ret
            /\ k' = NextK(k)
            /\ advances' = Min(advances + 1, p)
       ELSE /\ pc' = "idle" /\ ret' = RunResult(pixels_swapped, pixels_total)
            /\ UNCHANGED <<k, advances>>
    /\ ref' = RefStep(ref, pixels_total, width)
    /\ UNCHANGED <<config, elapsed_ms, pixels_swapped, resets, kStart, deltaSum, fresh, previous>>

\* One iteration of the outer while loop, lines 69-88 (and line 94 when it was the last).
Advance ==
    /\ pc = "loop"
    /\ LET calls == InnerLoop(PixelNumber(pixels_total, k), width)
           idx == Touched(calls, width)
       IN /\ swapped' = swapped \cup (idx \cap Watched)
          /\ repeated' = repeated \cup (idx \cap swapped)
          /\ emitted' = emitted + Len(calls)
          /\ order' = order \o WatchedOrder(calls, width)
          /\ pixels_to_swap' = pixels_to_swap - Len(calls)
    /\ k' = NextK(k)
    /\ advances' = Min(advances + 1, p)
    /\ IF pixels_to_swap' > 0
       THEN pc' = "loop" /\ ret' = ret
       ELSE pc' = "idle" /\ ret' = RunResult(pixels_swapped, pixels_total)
    /\ ref' = RefStep(ref, pixels_total, width)
    /\ UNCHANGED <<config, elapsed_ms, pixels_swapped, resets, kStart, deltaSum, fresh, previous>>

\* The host's frame (lines 153-157): one update() call with the frame's delta.
Update == \E d \in Deltas(duration_ms) : UpdateFinished(d) \/ UpdateRun(d)

Next == Reset \/ Update \/ Advance

Spec == Init /\ [][Next]_vars

\* update() runs to its return without interruption (single-threaded, no suspension
\* points): a started loop keeps taking steps.
FairSpec == Spec /\ WF_vars(Advance)

\* The same host over transitions constructed with any arguments.
SpecAnyArgs == InitAnyArgs /\ [][Next]_vars

\* ---------------------------------------------------------------- claims
\* ceil(total / (p - 1)): the most pixel numbers j, j - (p-1), ... above 0 that one
\* value of k can give (j = total + k - p <= total - 1).
MaxPerStep(total) == (total + p - 2) \div (p - 1)

IsExample == <<width, height, duration_ms>> = ExampleConfig

\* C1: once a freshly constructed transition has been fed deltas summing to at least
\* its duration and update() has returned, every pixel index 0 .. pixels_total-1,
\* index 0 included, has been passed to swap_pixel.
C1_Coverage ==
    (pc = "idle" /\ resets = 0 /\ deltaSum >= duration_ms /\ AllWatched)
        => swapped = 0..(pixels_total - 1)

\* C2: within one transition no pixel index is passed to swap_pixel more than once.
C2_NoDuplicateVisits == repeated = {}

\* C3 as stated: update() returns true exactly when the transition is not finished
\* after the call, and false on the call that brings pixels_swapped to pixels_total.
C3_ReturnsUnfinished ==
    (pc = "idle" /\ ret # "none") => (ret = "True" <=> pixels_swapped < pixels_total)

\* C3 as amended: a call of update() that returns, returns False exactly when the
\* transition was already finished when the call began, and True otherwise, the call
\* that brings pixels_swapped to pixels_total included (so four update(1000) calls on
\* the 100 x 100, 4000 ms example return True four times, and the fifth returns False).
C3_ReturnsFalseIffFinishedBefore ==
    [][(resets' = resets /\ pc' = "idle")
         => ret' = (IF pc = "idle" /\ pixels_swapped >= pixels_total
                    THEN "False" ELSE "True")]_vars

\* C3 witness: the example's finishing call has returned True.
C3_Witness ==
    IsExample /\ pc = "idle" /\ ret = "True" /\ elapsed_ms = 4000 /\ pixels_swapped = 10000

\* C4: after every update() call on an unfinished transition, pixels_swapped is
\* floor(pixels_total * elapsed / duration) with elapsed = min(duration, previous
\* elapsed + delta); on the 100 x 100, 4000 ms example, update(1000) four times
\* yields 2500, 5000, 7500, 10000.
C4_PacingStaircase ==
    /\ []((pc = "idle" /\ ret = "True")
            => pixels_swapped = (pixels_total * elapsed_ms) \div duration_ms)
    /\ []((IsExample /\ pc = "idle" /\ ret = "True" /\ elapsed_ms % 1000 = 0)
            => pixels_swapped = 2500 * (elapsed_ms \div 1000))
    /\ [][\A d \in Deltas(duration_ms) :
            UpdateRun(d) => elapsed_ms' = Min(duration_ms, elapsed_ms + d)]_vars

\* C4 witness: the example after its third update(1000).
C4_Witness ==
    IsExample /\ pc = "idle" /\ ret = "True" /\ elapsed_ms = 3000 /\ pixels_swapped = 7500

\* C5: every update() call terminates: the loop that advances k always exits.
C5_Termination == (pc = "loop") ~> (pc = "idle")

\* C6: once update() has returned False, every later update() call without a reset()
\* in between returns False, calls swap_pixel zero times and leaves elapsed_ms,
\* pixels_swapped and k unchanged.
C6_IdempotentCompletion ==
    [][(ret = "False" /\ resets' = resets)
         => (/\ ret' = "False"
             /\ pc' = "idle"
             /\ UNCHANGED <<elapsed_ms, pixels_swapped, k, emitted, swapped, repeated>>)]_vars

\* C6 witness: update() has returned False on a finished transition.
C6_Witness == pc = "idle" /\ ret = "False" /\ pixels_swapped = pixels_total /\ emitted > 0

\* C7: once the deltas passed to update() since construction or the last reset() sum
\* to at least the duration, pixels_swapped is exactly pixels_total; it never exceeds it.
C7_Completion ==
    /\ pixels_swapped <= pixels_total
    /\ deltaSum >= duration_ms => pixels_swapped = pixels_total

\* C7 witness: a replayed transition whose deltas have reached the duration and whose
\* finishing call has returned.
C7_Witness ==
    /\ resets > 0 /\ pc = "idle" /\ ret = "True"
    /\ deltaSum >= duration_ms /\ pixels_swapped = pixels_total /\ pixels_total > 1

\* C8: without a reset(), pixels_swapped never decreases, and the pixels_to_swap that
\* update() computes is never negative.
C8_Monotonicity ==
    [][/\ resets' = resets => pixels_swapped' >= pixels_swapped
       /\ \A d \in Deltas(duration_ms) : UpdateRun(d) => pixels_to_swap' >= 0]_vars

\* C8 witness: a transition part of the way through, between two calls.
C8_Witness ==
    pc = "idle" /\ ret = "True" /\ 0 < pixels_swapped /\ pixels_swapped < pixels_total

\* C9: update(0) on an unfinished transition leaves pixels_swapped unchanged, calls
\* swap_pixel zero times and returns True.
C9_ZeroDelta ==
    [][UpdateRun(0)
         => (/\ pixels_swapped' = pixels_swapped
             /\ emitted' = emitted /\ swapped' = swapped /\ repeated' = repeated
             /\ pc' = "idle" /\ ret' = "True")]_vars

\* C9 witness: update() has returned with no time elapsed at all, which only
\* update(0) calls produce.
C9_Witness == pc = "idle" /\ ret = "True" /\ elapsed_ms = 0 /\ deltaSum = 0

\* C10: after reset(), the pixels_swapped values and return values of update() are
\* those of a freshly constructed transition of the same duration and size fed the
\* same deltas, whatever k is.
C10_ResetRestoresPacing ==
    (resets > 0 /\ pc = "idle")
        => (/\ pixels_swapped = fresh.pixels_swapped
            /\ elapsed_ms = fresh.elapsed_ms
            /\ ret = fresh.ret)

\* C10 witness: a transition replayed to its end after a reset(), from a k that no
\* construction of the model starts at.
C10_Witness ==
    /\ resets > 0 /\ kStart \notin K0s /\ pc = "idle" /\ ret = "False"
    /\ pixels_swapped = pixels_total /\ emitted = pixels_total

\* C11: reset() from any state sets elapsed_ms and pixels_swapped to 0 and leaves k,
\* duration_ms, width, height and pixels_total as they were (p and m never change);
\* afterwards the transition is not finished and update() can pace again.
C11_ResetFrame ==
    [][resets' = resets + 1
         => (/\ elapsed_ms' = 0 /\ pixels_swapped' = 0
             /\ UNCHANGED <<k, duration_ms, width, height, pixels_total>>
             /\ ~Finished(pixels_swapped', pixels_total')
             /\ pc' = "idle")]_vars

\* C11 witness: update() swaps pixels again after a reset() that found k moved on.
C11_Witness ==
    /\ resets > 0 /\ kStart \notin K0s
    /\ pc = "idle" /\ ret = "True" /\ 0 < emitted /\ pixels_swapped < pixels_total

\* C12: construction with duration <= 0, width <= 0 or height <= 0 fails with
\* InvalidConfiguration, so no update() ever divides by a zero duration.
C12_InvalidConfigurationRejected ==
    /\ (duration_ms <= 0 \/ width <= 0 \/ height <= 0) => pc = "InvalidConfiguration"
    /\ ret # "ZeroDivisionError"

\* C13 as stated: in every update() call the number of swap_pixel calls equals the
\* amount added to pixels_swapped, for every image size, so between calls the
\* emissions since the last reset() number pixels_swapped.
C13_ExactConsumption == pc = "idle" => emitted = pixels_swapped

\* C13 as amended: an update() call that returns has made at least to_swap calls of
\* swap_pixel (the amount it added to pixels_swapped) and fewer than
\* to_swap + ceil(pixels_total / (p-1)); exactly to_swap when pixels_total <= p-1, and
\* none when to_swap = 0. So between calls the emissions since the last reset() are at
\* least pixels_swapped, and equal to it when pixels_total <= p-1.
C13_ConsumptionAtLeast ==
    /\ [](pc = "idle" => /\ emitted >= pixels_swapped
                         /\ pixels_total <= p - 1 => emitted = pixels_swapped)
    /\ [][/\ \A d \in Deltas(duration_ms) :
               UpdateRun(d) => /\ pixels_swapped' - pixels_swapped = pixels_to_swap'
                               /\ emitted' = emitted
          /\ pc = "loop" => emitted' - emitted = pixels_to_swap - pixels_to_swap'
          /\ (pc = "loop" /\ pc' = "idle")
                => /\ pixels_to_swap' <= 0
                   /\ pixels_to_swap' > - MaxPerStep(pixels_total)
                   /\ pixels_total <= p - 1 => pixels_to_swap' = 0]_vars

\* C13 witness: an update() on the 65538-pixel image has returned after swapping more
\* pixels than it added to pixels_swapped.
C13_Witness ==
    pixels_total > p - 1 /\ pc = "idle" /\ ret = "True" /\ emitted > pixels_swapped

\* C14: from any starting k in 1..p-1 the recurrence k <- (k*m) mod p first returns to
\* its start after exactly p-1 = 65536 advance steps (so it has passed through all
\* p-1 nonzero residues on the way).
C14_FullPeriod ==
    /\ kStart \in 1..(p - 1)
    /\ (0 < advances /\ advances < p /\ k = kStart) => advances = p - 1

\* C14 witness: a transition has advanced k through a whole cycle, back to its start.
C14_Witness == advances = p - 1 /\ k = kStart /\ kStart \notin K0s

\* C15: in every reachable state, after any update() and reset() calls, k is an
\* integer in 1..p-1, never 0.
C15_KInRange == k \in 1..(p - 1)

\* C15 witness: k after a reset() and further advances, between two calls.
C15_Witness ==
    /\ resets > 0 /\ kStart \notin K0s
    /\ advances > 0 /\ pc = "idle" /\ k \notin K0s /\ k # kStart

\* C16: over p-1 consecutive advance steps of k (one full cycle, counted from the
\* start of a transition) no pixel index is swapped more than once, whatever
\* pixels_total is; in particular the pixel numbers of one k are all different.
C16_NoRepeatWithinCycle ==
    /\ advances <= p - 1 => repeated = {}
    /\ LET calls == InnerLoop(PixelNumber(pixels_total, k), width)
       IN Cardinality(Touched(calls, width)) = Len(calls)

\* C16 witness: a whole cycle has swapped every index but 0 of a small image, each once.
C16_Witness ==
    /\ advances = p - 1 /\ repeated = {}
    /\ pixels_total > 1 /\ Cardinality(swapped) = pixels_total - 1

\* C17: one iteration of update()'s outer loop calls swap_pixel between 0 and
\* ceil(pixels_total / (p-1)) times, with the pixel numbers of the k it started with,
\* and then changes k once, to (k*m) mod p; nothing else changes k.
C17_AdvanceStep ==
    [][/\ pc = "loop"
            => LET calls == InnerLoop(PixelNumber(pixels_total, k), width)
               IN /\ emitted' - emitted = Len(calls)
                  /\ 0 <= Len(calls) /\ Len(calls) <= MaxPerStep(pixels_total)
                  /\ swapped' = swapped \cup (Touched(calls, width) \cap Watched)
                  /\ k' = (k * m) % p /\ k' # k
                  /\ advances < p => advances' = advances + 1
       /\ pc # "loop" => k' = k /\ advances' \in {advances, 0}]_vars

\* C17 witness: on the 65538-pixel image the iteration for k = p-1 has swapped two
\* pixels (numbers 65537 and 1) and advanced k.
C17_Witness ==
    pixels_total > p - 1 /\ advances > 0 /\ k = NextK(p - 1) /\ 1 \in swapped

\* C18: every swap_pixel(x, y) call has 0 <= x < width and 0 <= y < height, with
\* (x, y) = (j mod width, j div width) for a pixel number j in 0 .. pixels_total-1,
\* whatever k in 1..p-1 the iteration starts with.
C18_CoordinatesInRange ==
    LET j0 == PixelNumber(pixels_total, k)
        calls == InnerLoop(j0, width)
    IN \A i \in 1..Len(calls) :
          LET j == j0 - (i - 1) * (p - 1)
          IN /\ j \in 0..(pixels_total - 1)
             /\ calls[i] = <<j % width, j \div width>>
             /\ calls[i][1] \in 0..(width - 1)
             /\ calls[i][2] \in 0..(height - 1)

\* C18 witness: swap_pixel(1, 1), the last pixel of a 2 x 2 image, has been called.
C18_Witness == width = 2 /\ height = 2 /\ 3 \in swapped /\ pc = "idle"

\* C19: when a finished transition is reset() and update() is driven to completion
\* again, with k continuing from where it stopped, the second run swaps exactly the
\* set of pixel indices the first run did, for pixels_total <= p-1.
C19_ReplayCoverage ==
    (/\ previous.finished
     /\ pc = "idle" /\ Finished(pixels_swapped, pixels_total)
     /\ pixels_total <= p - 1)
        => swapped = previous.swapped

\* C19 witness: a 2 x 2 transition finished, was reset, and finished again from the
\* k the first run left.
C19_Witness ==
    /\ previous.finished /\ previous.swapped = {1, 2, 3} /\ kStart \notin K0s
    /\ pc = "idle" /\ Finished(pixels_swapped, pixels_total) /\ ret = "True"
    /\ width = 2 /\ height = 2

\* C20: for a fixed starting k, size (pixels_total <= p-1) and duration, the sequence
\* of pixel indices swapped until the transition is finished, and the k it ends
\* with, do not depend on how the elapsed time is split into update() deltas: after
\* any number of loop iterations they are those of a single update(duration) after
\* as many iterations, and the transition is finished exactly when that call returns.
C20_FrameSplitIndependence ==
    pixels_total <= p - 1
        => /\ k = ref.k
           /\ order = ref.order
           /\ ref.owed = pixels_total - emitted
           /\ (pc = "idle" /\ Finished(pixels_swapped, pixels_total)) => ref.owed = 0

\* C20 witness: a 2 x 2 transition of 3 ms after two update(1) calls (the only way
\* to 2 ms elapsed), each of which swapped a pixel: its order and k are those of the
\* single update(3) after the same two swaps, which has two more to make.
C20_Witness ==
    /\ width = 2 /\ height = 2 /\ duration_ms = 3 /\ elapsed_ms = 2
    /\ pc = "idle" /\ ret = "True" /\ kStart \notin K0s
    /\ Len(order) = 2 /\ order = ref.order /\ k = ref.k /\ ref.owed = 2

====
